---- MODULE Spec2Model ----
(***************************************************************************)
(* Model of the TradingView widget host of incrementalcapital/advancedcharts *)
(* (src/app9522/src/TradingViewWidget.tsx): the React state of the          *)
(* component, the DOM container the external widget mounts into, the        *)
(* script elements appended to document.head and the callbacks in flight.   *)
(*                                                                          *)
(* Strings the code takes apart (symbols) are sequences of one-character    *)
(* strings; identifiers the code only compares are TLA+ strings.            *)
(*                                                                          *)
(* One action is one browser event: the handler, the render React commits   *)
(* for the state updates the handler queued, and the effects of that        *)
(* render.  Closures are modelled by value: a script's onload carries the   *)
(* chartType and currentSymbol of the render that created it.               *)
(*                                                                          *)
(* The external constructor (window.TradingView.widget) is modelled by what *)
(* the host relies on: it mounts one more widget into the element named by  *)
(* container_id, or throws.  A script element removed from document.head    *)
(* after its fetch started still executes and fires its load/error event.   *)
(***************************************************************************)
(* Variables: the values of the useState hooks as seen by the last commit   *)
(* (loading, error, chartType, currentSymbol, inputSymbol), the DOM         *)
(* (container, scripts, selectValue, view) and the history variable last.   *)
(***************************************************************************)
EXTENDS Integers, Sequences, FiniteSets, TLC

\* ------------------------------------------------------------------ bounds
\* Total number of script elements one mount may create (first load plus
\* one per chartType/currentSymbol change).
MaxScripts ==
  3

\* Number of chart-type changes by keyboard of a keyboard-only run.
MaxKeyPresses ==
  6

\* Number of renderChart calls of a run of the script-promise variant.
MaxRenders ==
  4

\* Number of Host entries of the SSH config.
MaxHosts ==
  3

\* Number of (chart type, symbol) pairs a derivation run compares.
MaxCompared ==
  2

\* Number of getChartConfig calls of a resolver run.
MaxCalls ==
  3

\* --------------------------------------------------------- program constants
ChartTypes ==
  <<"Short Interest", "MACD", "RSI", "OBV", "AD", "ATR", "Slow Stochastic">>

ChartTypeSet ==
  {ChartTypes[i] : i \in DOMAIN ChartTypes}

DefaultInitialSymbol ==
  <<"A", "M", "E", "X", ":", "S", "P", "Y">>

DefaultInterval ==
  "D"

DefaultTheme ==
  "dark"

WATCHLIST ==
  << <<"I", "N", "D", "E", "X", ":", "S", "P", "X">>,
     <<"N", "A", "S", "D", "A", "Q", ":", "A", "M", "A", "T">>,
     <<"N", "A", "S", "D", "A", "Q", ":", "A", "R", "M">>,
     <<"N", "A", "S", "D", "A", "Q", ":", "Q", "C", "O", "M">>,
     <<"N", "A", "S", "D", "A", "Q", ":", "N", "V", "D", "A">>,
     <<"N", "Y", "S", "E", ":", "T", "S", "M">> >>

\* The values of the <option> elements of the watchlist <select>: the
\* placeholder option (value "") and one option per WATCHLIST entry.
SelectOptions ==
  {<<>>} \cup {WATCHLIST[i] : i \in DOMAIN WATCHLIST}

NoError ==
  "null"

LoadError ==
  "Failed to load TradingView library"

InitError ==
  "Failed to initialize TradingView widget"

\* ------------------------------------------------------------ input domains
\* Symbols the host may be mounted with (the initialSymbol prop).
InitialSymbols ==
  {DefaultInitialSymbol}

\* Texts the user may type into the symbol input.
InputTexts ==
  {<<" ">>, <<"N", "A", "S", "D", "A", "Q", ":", "A", "A", "P", "L">>}

ArrowKeys ==
  {"ArrowLeft", "ArrowRight"}

Keys ==
  {"ArrowLeft", "ArrowRight", "Enter"}

\* The chart-type buttons the user clicks (the keyboard reaches the others).
ClickedTypes ==
  {"Short Interest", "MACD"}

\* The watchlist options the user picks: the placeholder and one entry.
PickedOptions ==
  {<<>>, WATCHLIST[5]}

\* The tags getChartConfig is called with: the enum of types.ts and one
\* string that is not a member of it.
ResolverTags ==
  {"Short Interest", "MACD", "RSI", "AD", "Linear Regression", "OBV", "ATR",
   "Slow Stochastic", "Candles"}

\* The base symbols getChartConfig is called with.
ResolverSymbols ==
  {<<"N", "A", "S", "D", "A", "Q", ":", "A", "A", "P", "L">>,
   <<"A", "M", "E", "X", ":", "S", "P", "Y">>,
   <<"S", "P", "Y">>}

\* The base symbols the derivations are compared on: EXCHANGE:TICKER, no
\* colon, several colons, nothing after the colon, the empty string.
DerivedSymbols ==
  {<<"N", "A", "S", "D", "A", "Q", ":", "A", "A", "P", "L">>,
   <<"S", "P", "Y">>,
   <<"A", ":", "B", ":", "C">>,
   <<"N", "A", "S", "D", "A", "Q", ":">>,
   <<>>}

\* The symbols the parent passes as the symbol prop of the polling variant
\* and the user picks inside the widget.
PollSymbols ==
  {<<"N", "A", "S", "D", "A", "Q", ":", "N", "V", "D", "A">>,
   <<"A", "M", "E", "X", ":", "S", "P", "Y">>,
   <<"N", "A", "S", "D", "A", "Q", ":", "A", "A", "P", "L">>,
   <<"I", "N", "D", "E", "X", ":", "S", "P", "X">>}

\* The Host entries an SSH config may hold, in file order.
HostNames ==
  <<"amplify-development-server", "staging", "build", "backup", "bastion">>

\* ---------------------------------------------------------- pure functions
\* Index of the last ':' of s, 0 when s has none.
RECURSIVE LastColon(_, _)
LastColon(s, i) ==
  IF i = 0 THEN 0
  ELSE IF s[i] = ":" THEN i
  ELSE LastColon(s, i - 1)

\* sym.split(':').pop() : the text after the last ':' (all of sym without one)
SplitPop(sym) ==
  SubSeq(sym, LastColon(sym, Len(sym)) + 1, Len(sym))

\* sym.split(':').pop() || sym : the empty string is falsy
StockSymbol(sym) ==
  IF SplitPop(sym) = <<>> THEN sym ELSE SplitPop(sym)

FinraPrefix ==
  <<"F", "I", "N", "R", "A", ":">>

ShortVolumeSuffix ==
  <<"_", "S", "H", "O", "R", "T", "_", "V", "O", "L", "U", "M", "E">>

\* `FINRA:${stockSymbol}_SHORT_VOLUME`
ShortVolumeSymbol(sym) ==
  FinraPrefix \o StockSymbol(sym) \o ShortVolumeSuffix

\* The compareSymbols the switch of createWidgetConfig selects.
SwitchCompareSymbols(type, sym) ==
  CASE type = "Short Interest" ->
         << [symbol |-> ShortVolumeSymbol(sym), title |-> "Short Volume",
             position |-> "NewPane"] >>
    [] type = "MACD" ->
         << [symbol |-> <<"C", "M", "E", "_", "M", "I", "N", "I", ":", "N", "Q", "1", "!">>,
             position |-> "NewPriceScale"] >>
    [] type = "RSI" ->
         << [symbol |-> <<"C", "M", "E", "_", "M", "I", "N", "I", ":", "E", "S", "1", "!">>,
             position |-> "NewPriceScale"] >>
    [] OTHER -> <<>>

\* The studies the switch of createWidgetConfig selects.
SwitchStudies(type) ==
  CASE type = "Short Interest" -> <<"STD;Visible%1Average%1Price", "MFI@tv-basicstudies">>
    [] type = "MACD" -> <<"MACD@tv-basicstudies">>
    [] type = "RSI" -> <<"RSI@tv-basicstudies">>
    [] type = "OBV" -> <<"OBV@tv-basicstudies">>
    [] type = "AD" -> <<"ACCD@tv-basicstudies">>
    [] type = "ATR" -> <<"ATR@tv-basicstudies">>
    [] type = "Slow Stochastic" -> <<"Stochastic@tv-basicstudies">>
    [] OTHER -> <<>>

\* The configuration object handed to the widget constructor (the fields
\* that depend on the inputs; the literal fields are the same in every call).
createWidgetConfig(type, sym) ==
  [symbol |-> sym,
   interval |-> DefaultInterval,
   theme |-> DefaultTheme,
   container_id |-> "tradingview_widget",
   compareSymbols |-> SwitchCompareSymbols(type, sym),
   studies |-> SwitchStudies(type)]

\* ----------------------------------------------------- AdvancedCharts.tsx
\* The index of the first ':' of s at or after position i, Len(s) + 1 when
\* there is none.
RECURSIVE NextColon(_, _)
NextColon(s, i) ==
  IF i > Len(s) THEN Len(s) + 1
  ELSE IF s[i] = ":" THEN i
  ELSE NextColon(s, i + 1)

\* `${symbol.split(':')[1]}` : the second segment, and the text "undefined"
\* when the split has one element only.
SplitSecond(symbol) ==
  IF NextColon(symbol, 1) > Len(symbol)
  THEN <<"u", "n", "d", "e", "f", "i", "n", "e", "d">>
  ELSE SubSeq(symbol, NextColon(symbol, 1) + 1,
              NextColon(symbol, NextColon(symbol, 1) + 1) - 1)

\* const compareSymbol = `FINRA:${symbol.split(':')[1]}_SHORT_VOLUME`
IframeCompareSymbol(symbol) ==
  <<"F", "I", "N", "R", "A", ":">> \o SplitSecond(symbol)
    \o <<"_", "S", "H", "O", "R", "T", "_", "V", "O", "L", "U", "M", "E">>

\* ------------------------------------------- chartConfigurations.ts, types.ts
\* The ChartType enum of types.ts, in declaration order.
ChartTypeEnum ==
  <<"Short Interest", "MACD", "RSI", "AD", "Linear Regression", "OBV", "ATR",
    "Slow Stochastic">>

ChartTypeEnumSet ==
  {ChartTypeEnum[i] : i \in DOMAIN ChartTypeEnum}

\* The symbol function with shift() in place of pop(): the exchange is kept.
ConfigShortVolumeSymbol_Shift(sym) ==
  <<"F", "I", "N", "R", "A", ":">>
    \o (IF LastColon(sym, Len(sym)) = 0 THEN sym
        ELSE SubSeq(sym, 1, (CHOOSE i \in DOMAIN sym :
                               sym[i] = ":" /\ \A j \in 1..(i - 1) : sym[j] # ":") - 1))
    \o <<"_", "S", "H", "O", "R", "T", "_", "V", "O", "L", "U", "M", "E">>

\* (sym) => `FINRA:${sym.split(':').pop() || sym}_SHORT_VOLUME`
ConfigShortVolumeSymbol(sym) ==
  <<"F", "I", "N", "R", "A", ":">>
    \o (IF SplitPop(sym) = <<>> THEN sym ELSE SplitPop(sym))
    \o <<"_", "S", "H", "O", "R", "T", "_", "V", "O", "L", "U", "M", "E">>

\* A symbol of the table that is a plain string.
StringSymbol(s) ==
  [isFunction |-> FALSE, value |-> s]

\* The symbol of the table that is a function of the base symbol.
FunctionSymbol ==
  [isFunction |-> TRUE, value |-> <<>>]

\* chartConfigs whose Accumulation/Distribution entry names the study "AD".
chartConfigs_WrongStudy ==
  [type \in ChartTypeEnumSet |->
     CASE type = "Short Interest" ->
            [compareSymbols |-> << [symbol |-> FunctionSymbol,
                                    title |-> "Short Volume",
                                    position |-> "NewPane"] >>,
             studies |-> <<"STD;Visible%1Average%1Price">>]
       [] type = "MACD" ->
            [compareSymbols |-> << [symbol |-> StringSymbol(
                 <<"C", "M", "E", "_", "M", "I", "N", "I", ":", "N", "Q", "1", "!">>),
                                    position |-> "NewPriceScale"] >>,
             studies |-> <<"MACD@tv-basicstudies">>]
       [] type = "RSI" ->
            [compareSymbols |-> << [symbol |-> StringSymbol(
                 <<"C", "M", "E", "_", "M", "I", "N", "I", ":", "E", "S", "1", "!">>),
                                    position |-> "NewPriceScale"] >>,
             studies |-> <<"RSI@tv-basicstudies">>]
       [] type = "OBV" ->
            [compareSymbols |-> <<>>, studies |-> <<"OBV@tv-basicstudies">>]
       [] type = "AD" ->
            [compareSymbols |-> <<>>, studies |-> <<"AD@tv-basicstudies">>]
       [] type = "Linear Regression" ->
            [compareSymbols |-> <<>>,
             studies |-> <<"LinearRegression@tv-basicstudies", "MF@tv-basicstudies">>]
       [] type = "ATR" ->
            [compareSymbols |-> <<>>, studies |-> <<"ATR@tv-basicstudies">>]
       [] type = "Slow Stochastic" ->
            [compareSymbols |-> <<>>, studies |-> <<"Stochastic@tv-basicstudies">>]]

\* The chartConfigs table: one ChartConfig per tag of the enum.
chartConfigs ==
  [type \in ChartTypeEnumSet |->
     CASE type = "Short Interest" ->
            [compareSymbols |-> << [symbol |-> FunctionSymbol,
                                    title |-> "Short Volume",
                                    position |-> "NewPane"] >>,
             studies |-> <<"STD;Visible%1Average%1Price">>]
       [] type = "MACD" ->
            [compareSymbols |-> << [symbol |-> StringSymbol(
                 <<"C", "M", "E", "_", "M", "I", "N", "I", ":", "N", "Q", "1", "!">>),
                                    position |-> "NewPriceScale"] >>,
             studies |-> <<"MACD@tv-basicstudies">>]
       [] type = "RSI" ->
            [compareSymbols |-> << [symbol |-> StringSymbol(
                 <<"C", "M", "E", "_", "M", "I", "N", "I", ":", "E", "S", "1", "!">>),
                                    position |-> "NewPriceScale"] >>,
             studies |-> <<"RSI@tv-basicstudies">>]
       [] type = "OBV" ->
            [compareSymbols |-> <<>>, studies |-> <<"OBV@tv-basicstudies">>]
       [] type = "AD" ->
            [compareSymbols |-> <<>>, studies |-> <<"ACCD@tv-basicstudies">>]
       [] type = "Linear Regression" ->
            [compareSymbols |-> <<>>,
             studies |-> <<"LinearRegression@tv-basicstudies", "MF@tv-basicstudies">>]
       [] type = "ATR" ->
            [compareSymbols |-> <<>>, studies |-> <<"ATR@tv-basicstudies">>]
       [] type = "Slow Stochastic" ->
            [compareSymbols |-> <<>>, studies |-> <<"Stochastic@tv-basicstudies">>]]

\* The value a call that threw leaves in the log.
NoChartConfig ==
  [compareSymbols |-> <<>>, studies |-> <<>>]

\* cs => ({...cs, symbol: typeof cs.symbol === 'function' ? cs.symbol(symbol)
\* : cs.symbol})
ResolveCompareSymbol(cs, symbol) ==
  [cs EXCEPT !.symbol = IF cs.symbol.isFunction
                        THEN ConfigShortVolumeSymbol(symbol)
                        ELSE cs.symbol.value]

\* getChartConfig that resolves the symbol functions in place: the table
\* entry keeps the symbol resolved for the first base symbol.
getChartConfig_InPlace(table, type, symbol) ==
  IF type \notin DOMAIN table
  THEN [threw |-> TRUE, out |-> NoChartConfig, table |-> table]
  ELSE LET config == table[type]
           compareSymbols ==
             [i \in DOMAIN config.compareSymbols |->
                ResolveCompareSymbol(config.compareSymbols[i], symbol)]
       IN [threw |-> FALSE,
           out |-> [compareSymbols |-> compareSymbols, studies |-> config.studies],
           table |-> [table EXCEPT ![type].compareSymbols =
                        [i \in DOMAIN compareSymbols |->
                           [compareSymbols[i] EXCEPT
                              !.symbol = StringSymbol(compareSymbols[i].symbol)]]]]

\* getChartConfig(type, symbol) against the table: whether it threw, the
\* ChartConfig it returned and the table it left behind.  chartConfigs[type]
\* is undefined for a tag that is not a key, and reading compareSymbols of
\* undefined throws a TypeError.
getChartConfig(table, type, symbol) ==
  IF type \notin DOMAIN table
  THEN [threw |-> TRUE, out |-> NoChartConfig, table |-> table]
  ELSE LET config == table[type]
           compareSymbols ==
             [i \in DOMAIN config.compareSymbols |->
                ResolveCompareSymbol(config.compareSymbols[i], symbol)]
       IN [threw |-> FALSE,
           out |-> [compareSymbols |-> compareSymbols, studies |-> config.studies],
           table |-> table]

\* String.prototype.trim on a character sequence (the only white space the
\* input domain contains is the blank).
RECURSIVE TrimLeft(_)
TrimLeft(s) ==
  IF s # <<>> /\ Head(s) = " " THEN TrimLeft(Tail(s)) ELSE s

RECURSIVE TrimRight(_)
TrimRight(s) ==
  IF s # <<>> /\ s[Len(s)] = " " THEN TrimRight(SubSeq(s, 1, Len(s) - 1)) ELSE s

\* A trim that removes nothing.
Trim_Identity(s) ==
  s

Trim(s) ==
  TrimRight(TrimLeft(s))

\* Array.prototype.indexOf, 0-based, -1 when absent.
IndexOf(seq, x) ==
  IF \E i \in DOMAIN seq : seq[i] = x
  THEN (CHOOSE i \in DOMAIN seq : seq[i] = x /\ \A j \in 1..(i - 1) : seq[j] # x) - 1
  ELSE -1

\* The JavaScript % operator: the result has the sign of the dividend.
JsMod(a, n) ==
  IF a >= 0 THEN a % n ELSE 0 - ((0 - a) % n)

\* chartTypes[i] for a 0-based i; undefined outside the array.
ArrayGet(seq, i) ==
  IF i \in 0..(Len(seq) - 1) THEN seq[i + 1] ELSE "undefined"

\* newIndex without the '+ chartTypes.length' of the ArrowLeft branch.
newIndex_NoPlusLength(key, currentIndex, n) ==
  IF key = "ArrowLeft" THEN JsMod(currentIndex - 1, n)
  ELSE JsMod(currentIndex + 1, n)

\* The index handleKeyDown computes for an arrow key.
newIndex(key, currentIndex, n) ==
  IF key = "ArrowLeft" THEN JsMod(currentIndex - 1 + n, n)
  ELSE JsMod(currentIndex + 1, n)

\* -------------------------------------------------------------------- state
VARIABLES
  mounted,        \* the component is mounted
  tvDefined,      \* window.TradingView is defined
  loading,        \* useState(true)
  error,          \* useState<string | null>(null)
  chartType,      \* useState(ChartType.ShortInterest)
  currentSymbol,  \* useState(initialSymbol)
  inputSymbol,    \* useState('')
  selectValue,    \* the value of the (uncontrolled) watchlist <select>
  view,           \* what the last render returned: "chart", "error", "none"
  container,      \* the widgets inside div#tradingview_widget, oldest first
  scripts,        \* every script element created, in creation order
  last,           \* history: what the last event did
  cap,            \* the number of script elements this run may create
  presses,        \* history: ArrowRight and ArrowLeft keydowns counted so far
  rTable,         \* the module-level chartConfigs table
  rLog,           \* history: the getChartConfig calls made and their results
  cLog,           \* history: symbols and tags the three derivations were applied to
  \* the polling variant of TradingViewWidget
  pollSymbol,         \* the symbol prop
  pollCurrentSymbol,  \* useState(symbol)
  pollWidgetSymbol,   \* widgets[0].chart().symbol(); NoWidget without a widget
  pollEffect,         \* the prop-synchronisation effect has to run (a dependency changed)
  pollError,          \* useState<string | null>(null)
  pollLast,           \* history: the last step and whether the prop changed since the effect ran
  \* the script-promise variant of AdvancedCharts
  advTradingView,     \* window.TradingView is defined
  advScripts,         \* the script elements appended to document.body: "loading", "loaded", "failed"
  advWidgets,         \* the number of widgets constructed
  advCalls,           \* the number of renderChart calls made
  \* transfer-aws-configuration.bash
  hosts,                \* the hosts array
  selected_host_index,  \* what the user typed at the prompt, as bash arithmetic evaluates it
  selected_host,        \* ${hosts[$((selected_host_index-1))]}
  awsConfigDir,         \* [ -d "$AWS_CONFIG_DIR" ]
  syncPc,               \* the position of the script
  remoteOps             \* history: the remote commands run, with their target host

pollVars ==
  <<pollSymbol, pollCurrentSymbol, pollWidgetSymbol, pollEffect, pollError, pollLast>>

advVars ==
  <<advTradingView, advScripts, advWidgets, advCalls>>

syncVars ==
  <<hosts, selected_host_index, selected_host, awsConfigDir, syncPc, remoteOps>>

\* The variables of the other programs of the repository.
ext ==
  <<cLog, pollVars, advVars, syncVars>>

vars ==
  <<mounted, tvDefined, loading, error, chartType, currentSymbol, inputSymbol,
    selectValue, view, container, scripts, last, cap, presses, rTable, rLog,
    ext>>

\* The variables no event of the widget host touches.
aux ==
  <<cap, presses, rTable, rLog, ext>>

NoWidget ==
  <<"none">>

\* The other programs before they are started.
PollIdle ==
  /\ pollSymbol = <<>>
  /\ pollCurrentSymbol = <<>>
  /\ pollWidgetSymbol = NoWidget
  /\ pollEffect = FALSE
  /\ pollError = FALSE
  /\ pollLast = [op |-> "none", propChanged |-> FALSE]

AdvIdle ==
  /\ advTradingView = FALSE
  /\ advScripts = <<>>
  /\ advWidgets = 0
  /\ advCalls = 0

SyncIdle ==
  /\ hosts = <<>>
  /\ selected_host_index = [kind |-> "empty", n |-> 0]
  /\ selected_host = ""
  /\ awsConfigDir = FALSE
  /\ syncPc = "none"
  /\ remoteOps = <<>>

NoCfg ==
  [symbol |-> <<>>, interval |-> "", theme |-> "", container_id |-> "",
   compareSymbols |-> <<>>, studies |-> <<>>]

\* A history record: op the event, argType/argSym the value the handler was
\* called with, inst/threw/escaped what the constructor call did, preLen the
\* number of widgets in the container when the constructor was called, tv
\* whether window.TradingView was defined then, cfg the configuration passed.
\* contBefore and pendBefore are the number of widgets in the container and
\* of script loads in flight when the event arrived.
History(op, argType, argSym, r, tv) ==
  [op |-> op, argType |-> argType, argSym |-> argSym, inst |-> r.inst,
   threw |-> r.threw, escaped |-> r.escaped, preLen |-> r.preLen,
   tv |-> tv, cfg |-> r.cfg, contBefore |-> Len(container),
   pendBefore |-> Cardinality({i \in DOMAIN scripts : scripts[i].pending})]

\* containerRef.current is the container div while the chart view is rendered
\* and null once the error view replaced it or the component unmounted.
containerRef ==
  mounted /\ view = "chart"

\* The outcome of an initializeWidget call that did not reach the constructor.
NoCall(cont) ==
  [inst |-> FALSE, threw |-> FALSE, escaped |-> FALSE, preLen |-> Len(cont),
   cfg |-> NoCfg, cont |-> cont, setError |-> NoError, setLoading |-> FALSE]

\* cleanupWidget that leaves the container's content in place.
cleanupWidget_Keep(ref, cont) ==
  cont

cleanupWidget(ref, cont) ==
  IF ref THEN <<>> ELSE cont

\* initializeWidget without the try/catch around the constructor call.
initializeWidget_NoCatch(type, sym, throws, tv, ref, cont) ==
  IF tv /\ ref
  THEN IF throws
       THEN [inst |-> FALSE, threw |-> TRUE, escaped |-> TRUE,
             preLen |-> Len(cont), cfg |-> createWidgetConfig(type, sym),
             cont |-> cont, setError |-> NoError, setLoading |-> FALSE]
       ELSE [inst |-> TRUE, threw |-> FALSE, escaped |-> FALSE,
             preLen |-> Len(cont), cfg |-> createWidgetConfig(type, sym),
             cont |-> Append(cont, createWidgetConfig(type, sym)),
             setError |-> NoError, setLoading |-> TRUE]
  ELSE NoCall(cont)

\* initializeWidget that does not test containerRef.current.
initializeWidget_NoRefCheck(type, sym, throws, tv, ref, cont) ==
  IF tv
  THEN IF throws
       THEN [inst |-> FALSE, threw |-> TRUE, escaped |-> FALSE,
             preLen |-> Len(cont), cfg |-> createWidgetConfig(type, sym),
             cont |-> cont, setError |-> InitError, setLoading |-> TRUE]
       ELSE [inst |-> TRUE, threw |-> FALSE, escaped |-> FALSE,
             preLen |-> Len(cont), cfg |-> createWidgetConfig(type, sym),
             cont |-> Append(cont, createWidgetConfig(type, sym)),
             setError |-> NoError, setLoading |-> TRUE]
  ELSE NoCall(cont)

\* initializeWidget that does not test window.TradingView.
initializeWidget_NoTvCheck(type, sym, throws, tv, ref, cont) ==
  IF ref
  THEN IF throws
       THEN [inst |-> FALSE, threw |-> TRUE, escaped |-> FALSE,
             preLen |-> Len(cont), cfg |-> createWidgetConfig(type, sym),
             cont |-> cont, setError |-> InitError, setLoading |-> TRUE]
       ELSE [inst |-> TRUE, threw |-> FALSE, escaped |-> FALSE,
             preLen |-> Len(cont), cfg |-> createWidgetConfig(type, sym),
             cont |-> Append(cont, createWidgetConfig(type, sym)),
             setError |-> NoError, setLoading |-> TRUE]
  ELSE NoCall(cont)

\* initializeWidget that forgets setLoading(false) after a successful call.
initializeWidget_NoSetLoading(type, sym, throws, tv, ref, cont) ==
  IF tv /\ ref
  THEN IF throws
       THEN [inst |-> FALSE, threw |-> TRUE, escaped |-> FALSE,
             preLen |-> Len(cont), cfg |-> createWidgetConfig(type, sym),
             cont |-> cont, setError |-> InitError, setLoading |-> TRUE]
       ELSE [inst |-> TRUE, threw |-> FALSE, escaped |-> FALSE,
             preLen |-> Len(cont), cfg |-> createWidgetConfig(type, sym),
             cont |-> Append(cont, createWidgetConfig(type, sym)),
             setError |-> NoError, setLoading |-> FALSE]
  ELSE NoCall(cont)

\* initializeWidget as memoized by a render with chartType = type and
\* currentSymbol = sym.  throws: the external constructor throws.
\* setError = NoError stands for "setError was not called"; setLoading for
\* "setLoading(false) was called".
initializeWidget(type, sym, throws, tv, ref, cont) ==
  IF tv /\ ref
  THEN IF throws
       THEN [inst |-> FALSE, threw |-> TRUE, escaped |-> FALSE,
             preLen |-> Len(cont), cfg |-> createWidgetConfig(type, sym),
             cont |-> cont, setError |-> InitError, setLoading |-> TRUE]
       ELSE [inst |-> TRUE, threw |-> FALSE, escaped |-> FALSE,
             preLen |-> Len(cont), cfg |-> createWidgetConfig(type, sym),
             cont |-> Append(cont, createWidgetConfig(type, sym)),
             setError |-> NoError, setLoading |-> TRUE]
  ELSE NoCall(cont)

\* A component without the early return of the error view.
Render_NoErrorView(err) ==
  "chart"

\* A component whose error test is inverted.
Render_Inverted(err) ==
  IF err # NoError THEN "chart" ELSE "error"

\* The component's return value.
Render(err) ==
  IF err # NoError THEN "error" ELSE "chart"

\* A cleanup that removes the oldest script element, not its own.
removeChild_First(scr, i) ==
  [scr EXCEPT ![1].inHead = FALSE]

\* A cleanup that leaves the script element in the head.
removeChild_Keep(scr, i) ==
  scr

\* document.head.removeChild(script) of the script-load effect's cleanup.
removeChild(scr, i) ==
  [scr EXCEPT ![i].inHead = FALSE]

\* The body of the script-load effect: a script element whose onload is the
\* initializeWidget of the render with (type, sym), appended to the head.
appendScript(scr, type, sym) ==
  Append(scr, [type |-> type, sym |-> sym, inHead |-> TRUE, pending |-> TRUE])

\* What App and TradingViewWidget render into the document: App's root div,
\* and inside it the widget's container div (chart view) or the error div.
Document ==
  IF ~mounted THEN <<>>
  ELSE << [tag |-> "div", classes |-> {"h-screen", "w-full"}, id |-> "",
           testId |-> ""] >>
       \o (IF view = "chart"
           THEN << [tag |-> "div", classes |-> {"w-full", "h-full"},
                    id |-> "tradingview_widget", testId |-> ""] >>
           ELSE << [tag |-> "div", classes |-> {}, id |-> "", testId |-> ""] >>)

\* document.getElementById / screen.getByTestId: the matching elements.
ElementsById(id) ==
  {i \in DOMAIN Document : Document[i].id = id}

ElementsByTestId(testId) ==
  {i \in DOMAIN Document : Document[i].testId = testId}

\* The host right after its first render and the first run of its effects.
HostMounted ==
  /\ mounted = TRUE
  /\ loading = TRUE
  /\ error = NoError
  /\ chartType = "Short Interest"
  /\ currentSymbol \in InitialSymbols
  /\ inputSymbol = <<>>
  /\ selectValue = <<>>
  /\ view = "chart"
  /\ container = <<>>
  /\ scripts = appendScript(<<>>, chartType, currentSymbol)
  /\ last = History("mount", "", <<>>, NoCall(<<>>), FALSE)

Init ==
  /\ HostMounted
  /\ tvDefined = FALSE
  /\ cLog = <<>> /\ PollIdle /\ AdvIdle /\ SyncIdle
  /\ cap = MaxScripts
  /\ presses = [right |-> 0, left |-> 0]
  /\ rTable = chartConfigs
  /\ rLog = <<>>

\* A commit whose effect re-run sets loading back to true.
Commit_ReloadOnRerun(nType, nSym, nInput, setErr, setLoad, cont, scr, l) ==
  LET nError == IF setErr # NoError THEN setErr ELSE error
      nView == Render(nError)
      nRef == nView = "chart"
      domCont == IF nRef THEN cont ELSE <<>>
      rerun == nType # chartType \/ nSym # currentSymbol
  IN /\ chartType' = nType
     /\ currentSymbol' = nSym
     /\ inputSymbol' = nInput
     /\ error' = nError
     /\ loading' = IF setLoad THEN FALSE ELSE (loading \/ rerun)
     /\ view' = nView
     /\ container' = IF rerun THEN cleanupWidget(nRef, domCont) ELSE domCont
     /\ scripts' = IF rerun
                   THEN appendScript(removeChild(scr, Len(scr)), nType, nSym)
                   ELSE scr
     /\ last' = l
     /\ UNCHANGED mounted

\* React commits the updates an event queued: the component re-renders with
\* the new state, the container div leaves the DOM with the error view, and
\* the script-load effect (dependencies initializeWidget, cleanupWidget) is
\* cleaned up and re-run when chartType or currentSymbol changed.
Commit(nType, nSym, nInput, setErr, setLoad, cont, scr, l) ==
  LET nError == IF setErr # NoError THEN setErr ELSE error
      nView == Render(nError)
      nRef == nView = "chart"
      domCont == IF nRef THEN cont ELSE <<>>
      rerun == nType # chartType \/ nSym # currentSymbol
  IN /\ chartType' = nType
     /\ currentSymbol' = nSym
     /\ inputSymbol' = nInput
     /\ error' = nError
     /\ loading' = IF setLoad THEN FALSE ELSE loading
     /\ view' = nView
     /\ container' = IF rerun THEN cleanupWidget(nRef, domCont) ELSE domCont
     /\ scripts' = IF rerun
                   THEN appendScript(removeChild(scr, Len(scr)), nType, nSym)
                   ELSE scr
     /\ last' = l
     /\ UNCHANGED mounted

\* handleChartTypeChange(type) followed by the commit of its updates.
handleChartTypeChange(type, throws, op) ==
  LET r == initializeWidget(chartType, currentSymbol, throws, tvDefined,
                            containerRef, cleanupWidget(containerRef, container))
  IN /\ (type # chartType) => Len(scripts) < cap
     /\ Commit(type, currentSymbol, inputSymbol, r.setError, r.setLoading,
               r.cont, scripts, History(op, type, <<>>, r, tvDefined))
     /\ UNCHANGED <<tvDefined, selectValue>>

\* handleSymbolChange(newSymbol) followed by the commit of its updates;
\* nInput is the input text the same event leaves behind.
handleSymbolChange(newSymbol, nInput, throws, op) ==
  LET r == initializeWidget(chartType, currentSymbol, throws, tvDefined,
                            containerRef, cleanupWidget(containerRef, container))
  IN /\ (newSymbol # currentSymbol) => Len(scripts) < cap
     /\ Commit(chartType, newSymbol, nInput, r.setError, r.setLoading,
               r.cont, scripts, History(op, "", newSymbol, r, tvDefined))
     /\ UNCHANGED tvDefined

\* A click on one of the chart-type buttons.
ClickChartType ==
  \E type \in ClickedTypes \cap ChartTypeSet, throws \in BOOLEAN :
    /\ mounted /\ view = "chart"
    /\ handleChartTypeChange(type, throws, "click")
    /\ UNCHANGED aux

\* The window keydown listener of the keyboard effect, called with a
\* keydown event of the given key.
KeyDown(key, throws) ==
  LET chartTypes == ChartTypes
      currentIndex == IndexOf(chartTypes, chartType)
  IN /\ mounted
     /\ IF key \in {"ArrowLeft", "ArrowRight"}
        THEN handleChartTypeChange(
               ArrayGet(chartTypes, newIndex(key, currentIndex, Len(chartTypes))),
               throws, key)
        ELSE /\ last' = History("key", "", <<>>, NoCall(container), tvDefined)
             /\ UNCHANGED <<mounted, tvDefined, loading, error, chartType,
                            currentSymbol, inputSymbol, selectValue, view,
                            container, scripts>>

\* A keydown event on the window.
handleKeyDown ==
  \E key \in Keys, throws \in BOOLEAN :
    /\ KeyDown(key, throws)
    /\ UNCHANGED aux

\* onChange of the watchlist <select>.
SelectWatchlist ==
  \E value \in PickedOptions \cap SelectOptions, throws \in BOOLEAN :
    /\ mounted /\ view = "chart"
    /\ value # selectValue
    /\ selectValue' = value
    /\ handleSymbolChange(value, inputSymbol, throws, "select")
    /\ UNCHANGED aux

\* onChange of the symbol <input>.
TypeInput ==
  \E text \in InputTexts :
    /\ mounted /\ view = "chart"
    /\ text # inputSymbol
    /\ Commit(chartType, currentSymbol, text, NoError, FALSE, container,
              scripts, History("input", "", text, NoCall(container), tvDefined))
    /\ UNCHANGED <<tvDefined, selectValue>>
    /\ UNCHANGED aux

\* onSubmit of the symbol form.
handleSubmit ==
  \E throws \in BOOLEAN :
    /\ mounted /\ view = "chart"
    /\ IF Trim(inputSymbol) # <<>>
       THEN handleSymbolChange(inputSymbol, <<>>, throws, "submit")
       ELSE /\ last' = History("submit", "", inputSymbol, NoCall(container), tvDefined)
            /\ UNCHANGED <<mounted, tvDefined, loading, error, chartType,
                           currentSymbol, inputSymbol, view, container, scripts>>
    /\ UNCHANGED selectValue
    /\ UNCHANGED aux

\* The load event of script i: tv.js has run and defined window.TradingView;
\* script.onload is the initializeWidget of the render that created script i.
ScriptOnLoad ==
  \E i \in DOMAIN scripts, throws \in BOOLEAN :
    LET r == initializeWidget(scripts[i].type, scripts[i].sym, throws, TRUE,
                              containerRef, container)
        scr == [scripts EXCEPT ![i].pending = FALSE]
        l == History("onload", scripts[i].type, scripts[i].sym, r, TRUE)
    IN /\ scripts[i].pending
       /\ tvDefined' = TRUE
       /\ IF mounted
          THEN Commit(chartType, currentSymbol, inputSymbol, r.setError,
                      r.setLoading, r.cont, scr, l)
          ELSE /\ scripts' = scr
               /\ last' = l
               /\ UNCHANGED <<mounted, loading, error, chartType, currentSymbol,
                              inputSymbol, view, container>>
       /\ UNCHANGED selectValue
       /\ UNCHANGED aux

\* The error event of script i.
ScriptOnError ==
  \E i \in DOMAIN scripts :
    LET scr == [scripts EXCEPT ![i].pending = FALSE]
        l == History("onerror", scripts[i].type, scripts[i].sym,
                     NoCall(container), tvDefined)
    IN /\ scripts[i].pending
       /\ IF mounted
          THEN Commit(chartType, currentSymbol, inputSymbol, LoadError, TRUE,
                      container, scr, l)
          ELSE /\ scripts' = scr
               /\ last' = l
               /\ UNCHANGED <<mounted, loading, error, chartType, currentSymbol,
                              inputSymbol, view, container>>
       /\ UNCHANGED <<tvDefined, selectValue>>
       /\ UNCHANGED aux

\* The component unmounts: React detaches the ref and removes the tree, then
\* runs the effect cleanups (cleanupWidget finds the ref null; the script of
\* the last effect run is removed; the keydown listener is removed).
Unmount ==
  /\ mounted
  /\ mounted' = FALSE
  /\ view' = "none"
  /\ container' = cleanupWidget(FALSE, <<>>)
  /\ scripts' = removeChild(scripts, Len(scripts))
  /\ last' = History("unmount", "", <<>>, NoCall(<<>>), tvDefined)
  /\ UNCHANGED <<tvDefined, loading, error, chartType, currentSymbol,
                 inputSymbol, selectValue>>
  /\ UNCHANGED aux

Next ==
  \/ ClickChartType
  \/ handleKeyDown
  \/ SelectWatchlist
  \/ TypeInput
  \/ handleSubmit
  \/ ScriptOnLoad
  \/ ScriptOnError
  \/ Unmount

Spec ==
  Init /\ [][Next]_vars

hostVars ==
  <<mounted, tvDefined, loading, error, chartType, currentSymbol, inputSymbol,
    selectValue, view, container, scripts, last>>

\* ------------------------------------------------------- keyboard-only runs
\* A mounted host that receives nothing but keydown events; the arrow keys
\* pressed are counted.  window.TradingView is a global: it is already
\* defined when an earlier mount of the page loaded the library.
KeyInit ==
  /\ HostMounted
  /\ tvDefined \in BOOLEAN
  /\ cLog = <<>> /\ PollIdle /\ AdvIdle /\ SyncIdle
  /\ cap = MaxKeyPresses + 1
  /\ presses = [right |-> 0, left |-> 0]
  /\ rTable = chartConfigs
  /\ rLog = <<>>

KeyPress ==
  \E key \in Keys, throws \in BOOLEAN :
    /\ KeyDown(key, throws)
    /\ presses' = [right |-> presses.right + (IF key = "ArrowRight" THEN 1 ELSE 0),
                   left |-> presses.left + (IF key = "ArrowLeft" THEN 1 ELSE 0)]
    /\ UNCHANGED <<cap, rTable, rLog, ext>>

\* Two arrow-key keydown events dispatched in one task: React batches the
\* updates of the first handler call, so no render (and no re-subscription
\* of the listener by the keyboard effect) happens before the second call.
\* Both calls run the handleKeyDown closure of the last render, with its
\* chartType, handleChartTypeChange and initializeWidget; the updates are
\* committed once, the last setChartType and the last setError winning.
KeyDownBatch ==
  \E key1 \in ArrowKeys, key2 \in ArrowKeys, throws1 \in BOOLEAN, throws2 \in BOOLEAN :
    LET chartTypes == ChartTypes
        currentIndex == IndexOf(chartTypes, chartType)
        type2 == ArrayGet(chartTypes, newIndex(key2, currentIndex, Len(chartTypes)))
        r1 == initializeWidget(chartType, currentSymbol, throws1, tvDefined,
                               containerRef, cleanupWidget(containerRef, container))
        r2 == initializeWidget(chartType, currentSymbol, throws2, tvDefined,
                               containerRef, cleanupWidget(containerRef, r1.cont))
    IN /\ mounted
       /\ Len(scripts) < cap
       /\ Commit(type2, currentSymbol, inputSymbol,
                 IF r2.setError # NoError THEN r2.setError ELSE r1.setError,
                 r1.setLoading \/ r2.setLoading,
                 r2.cont, scripts, History(key2, type2, <<>>, r2, tvDefined))
       /\ presses' =
            [right |-> presses.right + (IF key1 = "ArrowRight" THEN 1 ELSE 0)
                                     + (IF key2 = "ArrowRight" THEN 1 ELSE 0),
             left |-> presses.left + (IF key1 = "ArrowLeft" THEN 1 ELSE 0)
                                   + (IF key2 = "ArrowLeft" THEN 1 ELSE 0)]
       /\ UNCHANGED <<tvDefined, selectValue, cap, rTable, rLog, ext>>

KeyNext ==
  \/ KeyPress
  \/ KeyDownBatch

KeySpec ==
  KeyInit /\ [][KeyNext]_vars

\* ------------------------------------------------------------ resolver runs
\* The chartConfigurations module loaded and no host mounted: callers call
\* getChartConfig with tags and symbols of the input domains.
\* No host is mounted and the chartConfigurations module is loaded.
HostIdle ==
  /\ mounted = FALSE
  /\ tvDefined = FALSE
  /\ loading = TRUE
  /\ error = NoError
  /\ chartType = "Short Interest"
  /\ currentSymbol = DefaultInitialSymbol
  /\ inputSymbol = <<>>
  /\ selectValue = <<>>
  /\ view = "none"
  /\ container = <<>>
  /\ scripts = <<>>
  /\ last = History("none", "", <<>>, NoCall(<<>>), FALSE)
  /\ cap = 0
  /\ presses = [right |-> 0, left |-> 0]
  /\ rTable = chartConfigs

ResolverInit ==
  /\ HostIdle
  /\ rLog = <<>>
  /\ cLog = <<>> /\ PollIdle /\ AdvIdle /\ SyncIdle

CallGetChartConfig ==
  \E type \in ResolverTags, symbol \in ResolverSymbols :
    LET r == getChartConfig(rTable, type, symbol)
    IN /\ Len(rLog) < MaxCalls
       /\ rLog' = Append(rLog, [type |-> type, symbol |-> symbol,
                                threw |-> r.threw, out |-> r.out])
       /\ rTable' = r.table
       /\ UNCHANGED hostVars
       /\ UNCHANGED <<cap, presses, ext>>

ResolverNext ==
  CallGetChartConfig

ResolverSpec ==
  ResolverInit /\ [][ResolverNext]_vars

\* ---------------------------------------------------------- derivation runs
\* The modules loaded and no host mounted: the inline createWidgetConfig,
\* getChartConfig and the iframe component's compareSymbol are applied to
\* the same chart type and symbol.
DeriveInit ==
  /\ HostIdle
  /\ rLog = <<>>
  /\ cLog = <<>> /\ PollIdle /\ AdvIdle /\ SyncIdle

Derive ==
  \E type \in ResolverTags, symbol \in DerivedSymbols :
    /\ Len(cLog) < MaxCompared
    /\ cLog' = Append(cLog, [type |-> type, symbol |-> symbol,
                             inline |-> createWidgetConfig(type, symbol),
                             resolved |->
                               [threw |-> getChartConfig(rTable, type, symbol).threw,
                                out |-> getChartConfig(rTable, type, symbol).out],
                             iframe |-> IframeCompareSymbol(symbol)])
    /\ UNCHANGED hostVars
    /\ UNCHANGED <<cap, presses, rTable, rLog, pollVars, advVars, syncVars>>

DeriveNext ==
  Derive

DeriveSpec ==
  DeriveInit /\ [][DeriveNext]_vars

\* ------------------------------------------- polling variant of the widget
\* cleanupWidget() followed by initializeWidget() of the render whose
\* currentSymbol is sym: nothing is built in the error view (the container
\* ref is null); otherwise the constructor throws, or builds a widget
\* showing sym, and widgets[0] is then the new widget or still the one it
\* replaced.
PollReinitialize(sym, throws, first) ==
  IF pollError THEN [error |-> TRUE, widget |-> NoWidget]
  ELSE IF throws THEN [error |-> TRUE, widget |-> NoWidget]
  ELSE [error |-> FALSE,
        widget |-> IF first = "new" \/ pollWidgetSymbol = NoWidget
                   THEN sym ELSE pollWidgetSymbol]

\* The polling variant mounted, the library loaded and the first widget
\* built by the script's onload; the effects of the mount have run.
PollInit ==
  /\ HostIdle
  /\ rLog = <<>>
  /\ cLog = <<>> /\ AdvIdle /\ SyncIdle
  /\ pollSymbol \in PollSymbols
  /\ pollCurrentSymbol = pollSymbol
  /\ pollWidgetSymbol = pollSymbol
  /\ pollEffect = FALSE
  /\ pollError = FALSE
  /\ pollLast = [op |-> "onload", propChanged |-> FALSE]

\* The callback of setInterval, followed by the commit of its update.
PollTick ==
  \E throws \in BOOLEAN, first \in {"old", "new"} :
    LET r == PollReinitialize(pollCurrentSymbol, throws, first)
    IN /\ ~pollEffect
       /\ ~pollError
       /\ pollWidgetSymbol # NoWidget
       /\ pollWidgetSymbol # pollCurrentSymbol
       /\ pollCurrentSymbol' = pollWidgetSymbol
       /\ pollWidgetSymbol' = r.widget
       /\ pollError' = r.error
       /\ pollEffect' = TRUE
       /\ pollLast' = [pollLast EXCEPT !.op = "tick"]
       /\ UNCHANGED pollSymbol
       /\ UNCHANGED hostVars
       /\ UNCHANGED <<cap, presses, rTable, rLog, cLog, advVars, syncVars>>

\* The parent renders the component with another symbol prop.
PollPropChange ==
  \E symbol \in PollSymbols :
    /\ ~pollEffect
    /\ symbol # pollSymbol
    /\ pollSymbol' = symbol
    /\ pollEffect' = TRUE
    /\ pollLast' = [op |-> "prop", propChanged |-> TRUE]
    /\ UNCHANGED <<pollCurrentSymbol, pollWidgetSymbol, pollError>>
    /\ UNCHANGED hostVars
    /\ UNCHANGED <<cap, presses, rTable, rLog, cLog, advVars, syncVars>>

\* The prop-synchronisation effect (dependencies symbol, currentSymbol, ...)
\* runs after a commit that changed one of its dependencies.
PollSyncEffect ==
  \E throws \in BOOLEAN, first \in {"old", "new"} :
    LET r == PollReinitialize(pollCurrentSymbol, throws, first)
    IN /\ pollEffect
       /\ IF pollSymbol # pollCurrentSymbol
          THEN /\ pollCurrentSymbol' = pollSymbol
               /\ pollWidgetSymbol' = r.widget
               /\ pollError' = r.error
               /\ pollEffect' = TRUE
          ELSE /\ pollEffect' = FALSE
               /\ UNCHANGED <<pollCurrentSymbol, pollWidgetSymbol, pollError>>
       /\ pollLast' = [op |-> "effect", propChanged |-> FALSE]
       /\ UNCHANGED pollSymbol
       /\ UNCHANGED hostVars
       /\ UNCHANGED <<cap, presses, rTable, rLog, cLog, advVars, syncVars>>

\* The user changes the symbol inside the widget (allow_symbol_change).
PollWidgetSymbolChange ==
  \E symbol \in PollSymbols :
    /\ ~pollError
    /\ pollWidgetSymbol # NoWidget
    /\ symbol # pollWidgetSymbol
    /\ pollWidgetSymbol' = symbol
    /\ pollLast' = [pollLast EXCEPT !.op = "widget"]
    /\ UNCHANGED <<pollSymbol, pollCurrentSymbol, pollEffect, pollError>>
    /\ UNCHANGED hostVars
    /\ UNCHANGED <<cap, presses, rTable, rLog, cLog, advVars, syncVars>>

PollNext ==
  \/ PollTick
  \/ PollPropChange
  \/ PollSyncEffect
  \/ PollWidgetSymbolChange

PollSpec ==
  PollInit /\ [][PollNext]_vars

\* ---------------------------------- script-promise variant of AdvancedCharts
\* The component mounted and its effect run once: the first renderChart
\* found window.TradingView undefined and appended a script element.
AdvInit ==
  /\ HostIdle
  /\ rLog = <<>>
  /\ cLog = <<>> /\ PollIdle /\ SyncIdle
  /\ advTradingView = FALSE
  /\ advScripts = <<"loading">>
  /\ advWidgets = 0
  /\ advCalls = 1

\* new window.TradingView.widget(...) inside the try block of renderChart:
\* the number of widgets after the call.
AdvConstruct(throws) ==
  IF throws THEN advWidgets ELSE advWidgets + 1

\* The effect runs again (symbol, width or height changed) and calls
\* renderChart: loadTradingViewScript resolves at once when
\* window.TradingView is defined and appends a script element otherwise.
AdvRenderChart ==
  \E throws \in BOOLEAN :
    /\ advCalls < MaxRenders
    /\ advCalls' = advCalls + 1
    /\ IF advTradingView
       THEN /\ advWidgets' = AdvConstruct(throws)
            /\ UNCHANGED advScripts
       ELSE /\ advScripts' = Append(advScripts, "loading")
            /\ UNCHANGED advWidgets
    /\ UNCHANGED advTradingView
    /\ UNCHANGED hostVars
    /\ UNCHANGED <<cap, presses, rTable, rLog, cLog, pollVars, syncVars>>

\* The load event of script i: tv.js defined window.TradingView, the
\* promise resolves and the renderChart call that awaits it continues.
AdvScriptOnLoad ==
  \E i \in DOMAIN advScripts, throws \in BOOLEAN :
    /\ advScripts[i] = "loading"
    /\ advScripts' = [advScripts EXCEPT ![i] = "loaded"]
    /\ advTradingView' = TRUE
    /\ advWidgets' = AdvConstruct(throws)
    /\ UNCHANGED advCalls
    /\ UNCHANGED hostVars
    /\ UNCHANGED <<cap, presses, rTable, rLog, cLog, pollVars, syncVars>>

\* The error event of script i: the promise rejects and renderChart logs.
AdvScriptOnError ==
  \E i \in DOMAIN advScripts :
    /\ advScripts[i] = "loading"
    /\ advScripts' = [advScripts EXCEPT ![i] = "failed"]
    /\ UNCHANGED <<advTradingView, advWidgets, advCalls>>
    /\ UNCHANGED hostVars
    /\ UNCHANGED <<cap, presses, rTable, rLog, cLog, pollVars, syncVars>>

AdvNext ==
  \/ AdvRenderChart
  \/ AdvScriptOnLoad
  \/ AdvScriptOnError

AdvSpec ==
  AdvInit /\ [][AdvNext]_vars

\* -------------------------------------------- transfer-aws-configuration.bash
\* The value bash arithmetic gives the text typed at the prompt: a number
\* is itself, the empty text and a word (an unset variable name) are 0.
ArithValue(input) ==
  IF input.kind = "number" THEN input.n ELSE 0

\* ${hosts[k]}: a negative subscript counts back from the end of the array;
\* an unset element, and a subscript before the first element, expand to
\* the empty string.
BashArrayGet(arr, k) ==
  IF k >= 0
  THEN IF k < Len(arr) THEN arr[k + 1] ELSE ""
  ELSE IF Len(arr) + k >= 0 THEN arr[Len(arr) + k + 1] ELSE ""

\* What the user may type at the prompt.
SyncInputs ==
  {[kind |-> "number", n |-> k] : k \in 0..(MaxHosts + 1)}
    \cup {[kind |-> "empty", n |-> 0], [kind |-> "word", n |-> 0]}

\* The script after hosts=($(extract_hosts)): the Host entries of the
\* user's SSH config, in file order.
SyncInit ==
  /\ HostIdle
  /\ rLog = <<>>
  /\ cLog = <<>> /\ PollIdle /\ AdvIdle
  /\ \E n \in 0..MaxHosts : hosts = [i \in 1..n |-> HostNames[i]]
  /\ selected_host_index = [kind |-> "empty", n |-> 0]
  /\ selected_host = ""
  /\ awsConfigDir \in BOOLEAN
  /\ syncPc = "check_hosts"
  /\ remoteOps = <<>>

\* if [ ${#hosts[@]} -eq 0 ]; then exit 1; fi, then the list is printed.
SyncCheckHosts ==
  /\ syncPc = "check_hosts"
  /\ syncPc' = IF Len(hosts) = 0 THEN "exit_1" ELSE "read"
  /\ UNCHANGED <<hosts, selected_host_index, selected_host, awsConfigDir, remoteOps>>
  /\ UNCHANGED hostVars
  /\ UNCHANGED <<cap, presses, rTable, rLog, cLog, pollVars, advVars>>

\* read -p ... selected_host_index; selected_host=${hosts[$((...-1))]};
\* get_host_details "$selected_host".
SyncReadSelection ==
  \E input \in SyncInputs :
    /\ syncPc = "read"
    /\ selected_host_index' = input
    /\ selected_host' = BashArrayGet(hosts, ArithValue(input) - 1)
    /\ syncPc' = "check_dir"
    /\ UNCHANGED <<hosts, awsConfigDir, remoteOps>>
    /\ UNCHANGED hostVars
    /\ UNCHANGED <<cap, presses, rTable, rLog, cLog, pollVars, advVars>>

\* if [ ! -d "$AWS_CONFIG_DIR" ]; then exit 1; fi
SyncCheckDir ==
  /\ syncPc = "check_dir"
  /\ syncPc' = IF awsConfigDir THEN "mkdir" ELSE "exit_1"
  /\ UNCHANGED <<hosts, selected_host_index, selected_host, awsConfigDir, remoteOps>>
  /\ UNCHANGED hostVars
  /\ UNCHANGED <<cap, presses, rTable, rLog, cLog, pollVars, advVars>>

\* ssh "$selected_host" "mkdir -p $REMOTE_AWS_DIR"
SyncSshMkdir ==
  /\ syncPc = "mkdir"
  /\ remoteOps' = Append(remoteOps, [cmd |-> "ssh mkdir", host |-> selected_host])
  /\ syncPc' = "rsync"
  /\ UNCHANGED <<hosts, selected_host_index, selected_host, awsConfigDir>>
  /\ UNCHANGED hostVars
  /\ UNCHANGED <<cap, presses, rTable, rLog, cLog, pollVars, advVars>>

\* rsync -avz --delete ... "$selected_host:$REMOTE_AWS_DIR"
SyncRsync ==
  /\ syncPc = "rsync"
  /\ remoteOps' = Append(remoteOps, [cmd |-> "rsync --delete", host |-> selected_host])
  /\ syncPc' = "ask"
  /\ UNCHANGED <<hosts, selected_host_index, selected_host, awsConfigDir>>
  /\ UNCHANGED hostVars
  /\ UNCHANGED <<cap, presses, rTable, rLog, cLog, pollVars, advVars>>

\* prompt_yes_no ...; ssh "$selected_host" on yes.
SyncSession ==
  \E yes \in BOOLEAN :
    /\ syncPc = "ask"
    /\ remoteOps' = IF yes
                    THEN Append(remoteOps, [cmd |-> "ssh", host |-> selected_host])
                    ELSE remoteOps
    /\ syncPc' = "done"
    /\ UNCHANGED <<hosts, selected_host_index, selected_host, awsConfigDir>>
    /\ UNCHANGED hostVars
    /\ UNCHANGED <<cap, presses, rTable, rLog, cLog, pollVars, advVars>>

SyncNext ==
  \/ SyncCheckHosts
  \/ SyncReadSelection
  \/ SyncCheckDir
  \/ SyncSshMkdir
  \/ SyncRsync
  \/ SyncSession

SyncSpec ==
  SyncInit /\ [][SyncNext]_vars

TypeOK ==
  /\ mounted \in BOOLEAN /\ tvDefined \in BOOLEAN /\ loading \in BOOLEAN
  /\ error \in {NoError, LoadError, InitError}
  /\ chartType \in ChartTypeSet
  /\ view \in {"chart", "error", "none"}
  /\ Len(scripts) \in 1..cap

\* ------------------------------------------------------------------ claims
HandlerOps ==
  {"click", "ArrowLeft", "ArrowRight", "select", "submit"}

ChartTypeOps ==
  {"click", "ArrowLeft", "ArrowRight"}

Pending ==
  {i \in DOMAIN scripts : scripts[i].pending}

\* C1: under any interleaving of chart-type changes, symbol changes and script
\* callbacks (stale onloads included) the container of a mounted host holds at
\* most one widget instance.
C1_AtMostOneWidget ==
  mounted => Len(container) <= 1

\* C2: every widget instantiation made by a chart-type change (button click
\* or arrow key) happens while the container is empty: the handler clears the
\* container before it calls the constructor.
C2_ChartTypeChangeClearsFirst ==
  (last.op \in ChartTypeOps /\ last.inst) => last.preLen = 0

\* C2 witness: a chart-type change arrived while a widget was mounted and no
\* script load was in flight, and it instantiated a widget.
C2_Witness ==
  /\ last.op \in ChartTypeOps /\ last.inst
  /\ last.contBefore = 1 /\ last.pendBefore = 0

\* C3: when a script's onerror fires on a mounted host, error is 'Failed to
\* load TradingView library', loading is false, the error view is rendered in
\* place of the chart and controls, and the callback instantiated no widget.
C3_OnErrorEntersError ==
  (mounted /\ last.op = "onerror") =>
     /\ error = LoadError
     /\ ~loading
     /\ view = "error"
     /\ ~last.inst
     /\ container = <<>>

\* C3 witness: the onerror of a script fired while a widget was mounted and
\* window.TradingView was defined.
C3_Witness ==
  mounted /\ last.op = "onerror" /\ last.contBefore = 1 /\ tvDefined

\* C4: when the widget constructor throws inside initializeWidget the
\* exception is caught there: error is 'Failed to initialize TradingView
\* widget', loading is false, the error view is rendered and the exception
\* did not escape to the calling handler or onload callback.
C4_ConstructorThrowCaught ==
  (mounted /\ last.threw) =>
     /\ error = InitError
     /\ ~loading
     /\ view = "error"
     /\ ~last.escaped

\* C4 witness: the constructor threw in a call made by a handler.
C4_Witness ==
  mounted /\ last.threw /\ last.op \in HandlerOps

\* C5: the Error state is terminal for the mount: once error is non-null it
\* stays non-null, and no event that follows instantiates a widget.
C5_ErrorTerminal ==
  [][error # NoError => (error' # NoError /\ ~last'.inst /\ container' = <<>>)]_vars

\* C5 witness: in the Error state, with window.TradingView defined, the
\* onload of a script fired and instantiated nothing.
C5_Witness ==
  /\ mounted /\ error # NoError /\ tvDefined
  /\ last.op = "onload" /\ ~last.threw /\ ~last.inst

\* C6: after a script-load failure or a widget-initialization failure no new
\* script element is appended to the document head and no new script load is
\* started.
C6_NoScriptAfterError ==
  [][(mounted /\ error # NoError) => Len(scripts') = Len(scripts)]_vars

\* C7: the widget created by the initializeWidget call inside
\* handleChartTypeChange(t) is configured with chart type t, and the one
\* created inside handleSymbolChange(s) with symbol s.
C7_FreshConfiguration ==
  /\ (last.op \in ChartTypeOps /\ last.inst) =>
        last.cfg.studies = SwitchStudies(last.argType)
  /\ (last.op \in {"select", "submit"} /\ last.inst) =>
        last.cfg.symbol = last.argSym

\* C8: once every started script load has completed successfully and none is
\* pending, the widget mounted in the container (the one instantiated last)
\* is the one configured with the latest chart type and symbol.
C8_LatestConfigurationWins ==
  (mounted /\ error = NoError /\ Pending = {}) =>
     /\ container # <<>>
     /\ container[Len(container)] = createWidgetConfig(chartType, currentSymbol)

\* C9: once a script load callback has fired, a mounted host has left Loading:
\* a successful load instantiated a widget (Ready) or found the host in Error,
\* a failed load set error (Error); loading is false in both.
C9_LeavesLoading ==
  mounted =>
     /\ (Pending # DOMAIN scripts) => ~loading
     /\ (last.op = "onload") => (last.inst \/ error # NoError)
     /\ (last.op = "onerror") => error # NoError

\* C9 witness: the first script load completed successfully and the host is
\* Ready.
C9_Witness ==
  /\ mounted /\ last.op = "onload" /\ last.inst
  /\ ~loading /\ error = NoError /\ Len(container) = 1

\* C10: no widget is instantiated while window.TradingView is undefined;
\* chart-type and symbol changes that arrive before the first script load
\* has completed instantiate nothing.
C10_NoWidgetWithoutLibrary ==
  /\ last.inst => last.tv
  /\ ~tvDefined => container = <<>>
  /\ (~tvDefined /\ last.op \in HandlerOps) => ~last.inst

\* C10 witness: a chart-type or symbol change arrived before any script load
\* had defined window.TradingView.
C10_Witness ==
  mounted /\ ~tvDefined /\ last.op \in HandlerOps /\ last.pendBefore >= 1

\* C11: when the host unmounts, the script element it appended is removed
\* from the document head and the container is released; after unmount no
\* widget is instantiated, even when the onload of a removed script fires.
C11_UnmountReleases ==
  ~mounted =>
     /\ \A i \in DOMAIN scripts : ~scripts[i].inHead
     /\ container = <<>>
     /\ ElementsById("tradingview_widget") = {}
     /\ ~last.inst

\* C11 witness: after the unmount, with window.TradingView defined, the
\* onload of a script that was still loading fired.
C11_Witness ==
  ~mounted /\ last.op = "onload" /\ last.pendBefore >= 1 /\ tvDefined

\* The chart types in circular enum order: the successor and the predecessor
\* of the type at (1-based) position p.
Position(type) ==
  CHOOSE p \in DOMAIN ChartTypes : ChartTypes[p] = type

CyclicNext(type) ==
  IF Position(type) = Len(ChartTypes) THEN ChartTypes[1]
  ELSE ChartTypes[Position(type) + 1]

CyclicPrev(type) ==
  IF Position(type) = 1 THEN ChartTypes[Len(ChartTypes)]
  ELSE ChartTypes[Position(type) - 1]

\* C12: from every current (rendered) chart type ArrowRight selects the next type in
\* enum declaration order and ArrowLeft the previous one, wrapping at both
\* ends; the resulting chartType is a member of the enum (the computed index
\* is within 0..n-1).
C12_ArrowKeysCycle ==
  [][/\ (last'.op = "ArrowRight") => chartType' = CyclicNext(chartType)
     /\ (last'.op = "ArrowLeft") => chartType' = CyclicPrev(chartType)
     /\ chartType' \in ChartTypeSet
     /\ IndexOf(ChartTypes, chartType') \in 0..(Len(ChartTypes) - 1)]_vars

\* C12 witness: ArrowRight pressed on the last chart type wrapped to the
\* first one.
C12_Witness ==
  /\ last.op = "ArrowRight" /\ chartType = ChartTypes[1]
  /\ presses.left = 1 /\ presses.right = 1

\* A symbol of the form EXCHANGE:TICKER: exactly one colon, ticker not empty.
OneColonForm(s) ==
  /\ Cardinality({i \in DOMAIN s : s[i] = ":"}) = 1
  /\ s[Len(s)] # ":"

\* The ticker of a symbol of that form: the text after its colon.
Ticker(s) ==
  SubSeq(s, (CHOOSE i \in DOMAIN s : s[i] = ":") + 1, Len(s))

\* C13: for chart type ShortInterest and a symbol EXCHANGE:TICKER,
\* getChartConfig returns exactly one compare symbol, and it is
\* 'FINRA:' + TICKER + '_SHORT_VOLUME'; for 'NASDAQ:AAPL' it is
\* 'FINRA:AAPL_SHORT_VOLUME'.
C13_ShortVolumeSymbol ==
  \A i \in DOMAIN rLog :
    /\ (rLog[i].type = "Short Interest" /\ OneColonForm(rLog[i].symbol)) =>
          /\ ~rLog[i].threw
          /\ Len(rLog[i].out.compareSymbols) = 1
          /\ rLog[i].out.compareSymbols[1].symbol =
               FinraPrefix \o Ticker(rLog[i].symbol) \o ShortVolumeSuffix
    /\ (/\ rLog[i].type = "Short Interest"
        /\ rLog[i].symbol = <<"N", "A", "S", "D", "A", "Q", ":", "A", "A", "P", "L">>) =>
          rLog[i].out.compareSymbols[1].symbol =
            <<"F", "I", "N", "R", "A", ":", "A", "A", "P", "L", "_", "S", "H",
              "O", "R", "T", "_", "V", "O", "L", "U", "M", "E">>

\* C13 witness: getChartConfig(ShortInterest, 'NASDAQ:AAPL') was called.
C13_Witness ==
  \E i \in DOMAIN rLog :
    /\ rLog[i].type = "Short Interest"
    /\ rLog[i].symbol = <<"N", "A", "S", "D", "A", "Q", ":", "A", "A", "P", "L">>

\* The fixed study identifier the specification names for each tag.
ExpectedStudy(type) ==
  CASE type = "Short Interest" -> "STD;Visible%1Average%1Price"
    [] type = "MACD" -> "MACD@tv-basicstudies"
    [] type = "RSI" -> "RSI@tv-basicstudies"
    [] type = "OBV" -> "OBV@tv-basicstudies"
    [] type = "AD" -> "ACCD@tv-basicstudies"
    [] type = "ATR" -> "ATR@tv-basicstudies"
    [] type = "Slow Stochastic" -> "Stochastic@tv-basicstudies"
    [] type = "Linear Regression" -> "LinearRegression@tv-basicstudies"

\* C14: for every tag of the ChartType enum and every symbol the resolver
\* returns a configuration whose studies list is non-empty and contains the
\* tag's fixed study identifier.
C14_FixedStudyPerTag ==
  \A i \in DOMAIN rLog :
    rLog[i].type \in ChartTypeEnumSet =>
      /\ ~rLog[i].threw
      /\ rLog[i].out.studies # <<>>
      /\ \E j \in DOMAIN rLog[i].out.studies :
            rLog[i].out.studies[j] = ExpectedStudy(rLog[i].type)

\* C14 witness: the resolver was called with three different tags of the
\* enum, Accumulation/Distribution and Linear Regression among them.
C14_Witness ==
  /\ Len(rLog) = 3
  /\ rLog[1].type = "AD" /\ rLog[2].type = "Linear Regression"
  /\ rLog[3].type = "Short Interest"

\* C15: called with a tag that is not one of the recognised tags, the
\* resolver returns a default configuration and does not throw.
C15_UnknownTagDefault ==
  \A i \in DOMAIN rLog :
    rLog[i].type \notin ChartTypeEnumSet => ~rLog[i].threw

\* C16: getChartConfig is a pure function of (chart type, symbol): two calls
\* with equal arguments return equal results whatever calls were made in
\* between, and no call changes the shared chartConfigs table.
C16_PureResolver ==
  /\ rTable = chartConfigs
  /\ \A i, j \in DOMAIN rLog :
       (rLog[i].type = rLog[j].type /\ rLog[i].symbol = rLog[j].symbol) =>
          (rLog[i].threw = rLog[j].threw /\ rLog[i].out = rLog[j].out)

\* C16 witness: two ShortInterest calls with equal arguments, with a
\* ShortInterest call for another symbol between them.
C16_Witness ==
  /\ Len(rLog) = 3
  /\ rLog[1].type = "Short Interest" /\ rLog[2].type = "Short Interest"
  /\ rLog[3].type = "Short Interest"
  /\ rLog[1].symbol = rLog[3].symbol /\ rLog[2].symbol # rLog[1].symbol

\* C17: mounted without props, the first widget the host instantiates is
\* configured with symbol 'NASDAQ:NVDA', interval 'D' and theme 'dark'.
C17_DocumentedDefaults ==
  (mounted /\ last.op = "onload" /\ last.inst /\ Len(scripts) = 1) =>
     /\ last.cfg.symbol = <<"N", "A", "S", "D", "A", "Q", ":", "N", "V", "D", "A">>
     /\ last.cfg.interval = "D"
     /\ last.cfg.theme = "dark"

\* C18: in every mounted state in which error is null exactly one element
\* with id 'tradingview_widget' is present in the document, before and after
\* any script callback.
C18_OneContainerElement ==
  (mounted /\ error = NoError) =>
     Cardinality(ElementsById("tradingview_widget")) = 1

\* C18 witness: a script callback fired (the load succeeded and a widget was
\* instantiated) and error is null.
C18_Witness ==
  mounted /\ error = NoError /\ last.op = "onload" /\ last.inst

\* C19: after App is rendered its root container is found by test id
\* 'app-container' and carries the classes 'h-screen' and 'w-full'.
C19_AppContainerTestId ==
  mounted =>
     \E i \in ElementsByTestId("app-container") :
        {"h-screen", "w-full"} \subseteq Document[i].classes

\* C20: k ArrowRight and m ArrowLeft keydowns, in any order and whether or
\* not a render happens between two of them, move the chart-type index by
\* (k - m) mod n from the initial type (index 0).
C20_NetKeyPresses ==
  IndexOf(ChartTypes, chartType) =
     (presses.right - presses.left) % Len(ChartTypes)

\* A text of blanks only (the empty text included).
Blank(s) ==
  \A i \in DOMAIN s : s[i] = " "

\* C21: submitting the symbol form with an empty or whitespace-only input
\* changes nothing (currentSymbol, inputSymbol, the mounted widget and the
\* scripts are unchanged); submitting a non-blank input sets currentSymbol
\* to that input and resets inputSymbol to the empty string.
C21_SubmitFrame ==
  [][(last'.op = "submit") =>
       IF Blank(inputSymbol)
       THEN UNCHANGED <<currentSymbol, inputSymbol, container, scripts,
                        chartType, loading, error, view>>
       ELSE currentSymbol' = inputSymbol /\ inputSymbol' = <<>>]_vars

\* C21 witness: a whitespace-only input was submitted while a widget was
\* mounted.
C21_Witness ==
  /\ last.op = "submit" /\ last.argSym = <<" ">>
  /\ inputSymbol = <<" ">> /\ Len(container) >= 1

\* C26: given a non-empty initialSymbol, currentSymbol is never the empty
\* string, and no widget is instantiated with an empty symbol.
C26_SymbolNeverEmpty ==
  /\ currentSymbol # <<>>
  /\ last.inst => last.cfg.symbol # <<>>

\* C27: loading starts true and is monotone: once false it never becomes
\* true again for that mount, even while a later script load is in flight.
C27_LoadingMonotone ==
  [][/\ (last.op = "mount") => (loading = TRUE)
     /\ (loading = FALSE) => (loading' = FALSE)]_vars

\* C27 witness: loading is false while the script appended by a later
\* chart-type or symbol change is still loading.
C27_Witness ==
  /\ mounted /\ loading = FALSE /\ Len(scripts) >= 2
  /\ scripts[Len(scripts)].pending /\ scripts[Len(scripts)].inHead

\* The script elements that are children of document.head.
InHead ==
  {i \in DOMAIN scripts : scripts[i].inHead}

TickerOf(s) ==
  IF \E i \in DOMAIN s : s[i] = ":"
  THEN SubSeq(s, (CHOOSE i \in DOMAIN s :
                    s[i] = ":" /\ \A j \in (i + 1)..Len(s) : s[j] # ":") + 1, Len(s))
  ELSE s

\* C22: for every symbol string (no colon, several colons, nothing after
\* the colon included) the short-volume symbol derived for ShortInterest,
\* by createWidgetConfig and by getChartConfig, is 'FINRA:' + T +
\* '_SHORT_VOLUME' with T the text after the last colon (the whole symbol
\* without a colon), and the text between prefix and suffix has no colon.
C22_TickerWithoutExchange ==
  \A i \in DOMAIN cLog :
    cLog[i].type = "Short Interest" =>
      LET expected == <<"F", "I", "N", "R", "A", ":">> \o TickerOf(cLog[i].symbol)
                        \o <<"_", "S", "H", "O", "R", "T", "_", "V", "O", "L", "U", "M", "E">>
          derived == cLog[i].inline.compareSymbols[1].symbol
      IN /\ derived = expected
         /\ cLog[i].resolved.out.compareSymbols[1].symbol = expected
         /\ \A j \in 7..(Len(derived) - 13) : derived[j] # ":"

\* C29: for every chart type present in both ChartType enumerations and
\* every symbol, the switch of createWidgetConfig and getChartConfig produce
\* the same compareSymbols and the same studies list.
C29_SwitchEqualsTable ==
  \A i \in DOMAIN cLog :
    cLog[i].type \in (ChartTypeSet \cap ChartTypeEnumSet) =>
      /\ ~cLog[i].resolved.threw
      /\ cLog[i].inline.compareSymbols = cLog[i].resolved.out.compareSymbols
      /\ cLog[i].inline.studies = cLog[i].resolved.out.studies

\* C30: for every symbol string the compare symbol the iframe AdvancedCharts
\* component writes into the widget script equals the short-volume symbol
\* getChartConfig derives for the same symbol.
C30_IframeEqualsResolver ==
  \A i \in DOMAIN cLog :
    cLog[i].type = "Short Interest" =>
      cLog[i].iframe = cLog[i].resolved.out.compareSymbols[1].symbol

\* C23: in the polling variant, when the periodic check finds the widget
\* displaying a symbol different from currentSymbol, currentSymbol is set to
\* the widget's symbol, and it stays at that value until the symbol prop
\* changes or the check reports another symbol: a step that is neither a
\* periodic check nor a change of the prop nor the effect run that follows a
\* change of the prop leaves currentSymbol as it is.
C23_PolledSymbolStays ==
  [][/\ (pollLast'.op = "tick") => (pollCurrentSymbol' = pollWidgetSymbol)
     /\ (/\ pollLast'.op # "tick"
         /\ pollSymbol' = pollSymbol
         /\ ~pollLast.propChanged) => (pollCurrentSymbol' = pollCurrentSymbol)]_vars

\* C24: in the script-promise variant of AdvancedCharts, over any sequence
\* of renderChart calls (calls that overlap a load in flight included) at
\* most one script element for the library is appended to the document.
C24_AtMostOneScript ==
  Len(advScripts) <= 1

\* C25: every remote operation of the AWS configuration sync script is
\* directed at the host the user selected from the list (the entry whose
\* number was typed), and at no other host: when the text typed is not the
\* number of an entry, no operation is directed at a host of the list.
C25_OnlySelectedHost ==
  \A i \in DOMAIN remoteOps :
    IF /\ selected_host_index.kind = "number"
       /\ selected_host_index.n \in 1..Len(hosts)
    THEN remoteOps[i].host = hosts[selected_host_index.n]
    ELSE \A j \in DOMAIN hosts : remoteOps[i].host # hosts[j]

====
